---------------------------- MODULE Spec2Model ----------------------------
(***************************************************************************)
(* Model of tools/diff-preview.go: a tool that stages "before" and "after" *)
(* copies of the files `git status --porcelain` reports and opens WinMerge *)
(* on the two directories.                                                 *)
(*                                                                         *)
(* Text is a sequence of one-character strings.  A run of main() is a      *)
(* process stepping through the system calls of main(); a fatal*() call    *)
(* is the position "exit1", os.Exit(0) is "exit0".  The tool is a Windows  *)
(* tool (TEMP, WinMergeU): both '/' and '\' separate path elements.        *)
(*                                                                         *)
(* A system call fails only for a reason the modelled file system shows:   *)
(* a file or directory that is not there.  HEAD and the working tree do    *)
(* not change while runs are under way.                                    *)
(***************************************************************************)
EXTENDS Integers, Sequences, FiniteSets, TLC

VARIABLES
    statusOut,            \* bytes printed by `git status --porcelain`
    includeNotCheckedIn,  \* the flag handed to parseGitStatusMust
    head,                 \* git path -> content at HEAD, for the paths in HEAD
    wt,                   \* working-tree path -> content, for the files on disk
    now,                  \* the clock, in ticks
    snapDirs,             \* sub-directories of tempDir: name -> directory
    strayFiles,           \* non-directory entries of tempDir
    pc,                   \* run -> position in main()
    listing,              \* run -> entries of ioutil.ReadDir still to visit
    sweepAt,              \* run -> clock value when deleteOldDirs listed tempDir
    changes,              \* run -> []*GitChange returned by gitStatusMust
    idx,                  \* run -> index of the next change in copyFiles' loop
    allocAt,              \* run -> time.Now() read when the name was made
    subDir,               \* run -> name of the directory main() allocated
    wtReads,              \* run -> working-tree paths the run tried to open
    sweptAt,              \* clock value of the last sweep done within one instant
    viewerArgs            \* run -> arguments WinMerge was started with

vars == <<statusOut, includeNotCheckedIn, head, wt, now, snapDirs, strayFiles,
          pc, listing, sweepAt, changes, idx, allocAt, subDir, wtReads,
          sweptAt, viewerArgs>>

-----------------------------------------------------------------------------
(* Bounds of the model *)

MaxLen == 5          \* longest status text drawn character by character
MaxLines == 2        \* most sample lines joined into one status text
MaxTicks == 2        \* single clock ticks taken after each jump
MaxJumps == 1        \* jumps of one retention period the clock takes
TicksPerSecond == 2  \* clock resolution below the second

Runs == {1, 2}

-----------------------------------------------------------------------------
(* Change types, the iota block of the source *)

Modified == 0
Added == 1
Deleted == 2
NotCheckedIn == 3

-----------------------------------------------------------------------------
(* Text helpers: package strings and path/filepath as the code uses them *)

IsSpace(c) == c \in {" ", "\t", "\n", "\r"}

IsPathSeparator(c) == c \in {"/", "\\"}

IndexOf(s, c) ==
    IF \E i \in 1..Len(s) : s[i] = c
    THEN CHOOSE i \in 1..Len(s) : s[i] = c /\ \A j \in 1..(i-1) : s[j] # c
    ELSE 0

RECURSIVE Split(_, _)
Split(s, sep) ==
    LET i == IndexOf(s, sep) IN
    IF i = 0 THEN <<s>>
    ELSE <<SubSeq(s, 1, i-1)>> \o Split(SubSeq(s, i+1, Len(s)), sep)

SplitN2(s, sep) ==
    LET i == IndexOf(s, sep) IN
    IF i = 0 THEN <<s>>
    ELSE <<SubSeq(s, 1, i-1), SubSeq(s, i+1, Len(s))>>

RECURSIVE TrimLeft(_)
TrimLeft(s) ==
    IF s # <<>> /\ IsSpace(Head(s)) THEN TrimLeft(Tail(s)) ELSE s

RECURSIVE TrimRight(_)
TrimRight(s) ==
    IF s # <<>> /\ IsSpace(s[Len(s)]) THEN TrimRight(SubSeq(s, 1, Len(s)-1)) ELSE s

TrimSpace(s) == TrimRight(TrimLeft(s))

RECURSIVE StripTrailingSeparators(_)
StripTrailingSeparators(p) ==
    IF p # <<>> /\ IsPathSeparator(p[Len(p)])
    THEN StripTrailingSeparators(SubSeq(p, 1, Len(p)-1))
    ELSE p

LastSeparator(p) ==
    IF \E i \in 1..Len(p) : IsPathSeparator(p[i])
    THEN CHOOSE i \in 1..Len(p) :
            IsPathSeparator(p[i]) /\ \A j \in (i+1)..Len(p) : ~IsPathSeparator(p[j])
    ELSE 0

\* Mutant: the directory part is not cut off.
Base_WholePath(path) ==
    IF path = <<>> THEN <<".">> ELSE StripTrailingSeparators(path)

Base(path) ==
    IF path = <<>> THEN <<".">>
    ELSE LET p == StripTrailingSeparators(path)
             q == SubSeq(p, LastSeparator(p) + 1, Len(p))
         IN  IF q = <<>> THEN <<"\\">> ELSE q

ToWindowsPath(p) == [i \in 1..Len(p) |-> IF p[i] = "/" THEN "\\" ELSE p[i]]

-----------------------------------------------------------------------------
(* Status parser *)

RECURSIVE DropEmpty(_)
DropEmpty(ls) ==
    IF ls = <<>> THEN <<>>
    ELSE LET l == TrimSpace(Head(ls)) IN
         IF Len(l) > 0 THEN <<l>> \o DropEmpty(Tail(ls)) ELSE DropEmpty(Tail(ls))

toTrimmedLines(d) == DropEmpty(Split(d, "\n"))

KnownCode(code) ==
    code \in {<<"M">>, <<"A">>, <<"D">>, <<"?", "?">>}

TypeOfCode(code) ==
    CASE code = <<"M">> -> Modified
      [] code = <<"A">> -> Added
      [] code = <<"D">> -> Deleted
      [] code = <<"?", "?">> -> NotCheckedIn

\* The result of parseGitStatusLineMust: fatal, or the GitChange.
parseGitStatusLineMust(s) ==
    LET parts == SplitN2(s, " ") IN
    IF Len(parts) # 2 THEN [fatal |-> TRUE]
    ELSE IF ~KnownCode(parts[1]) THEN [fatal |-> TRUE]
    ELSE LET path == TrimSpace(parts[2]) IN
         [fatal |-> FALSE,
          c |-> [Type |-> TypeOfCode(parts[1]), Path |-> path, Name |-> Base(path)]]

\* Mutant: the flag is ignored and every record is kept.
KeepChange_All(inc, c) == TRUE

KeepChange(inc, c) == ~(~inc /\ c.Type = NotCheckedIn)

\* Mutant: a line that does not parse is skipped.
RECURSIVE ParseLines_SkipBad(_, _, _)
ParseLines_SkipBad(lines, inc, res) ==
    IF lines = <<>> THEN [fatal |-> FALSE, res |-> res]
    ELSE LET r == parseGitStatusLineMust(Head(lines)) IN
         IF r.fatal THEN ParseLines_SkipBad(Tail(lines), inc, res)
         ELSE ParseLines_SkipBad(Tail(lines), inc,
                         IF ~(~inc /\ r.c.Type = NotCheckedIn)
                         THEN Append(res, r.c) ELSE res)

RECURSIVE ParseLines(_, _, _)
ParseLines(lines, inc, res) ==
    IF lines = <<>> THEN [fatal |-> FALSE, res |-> res]
    ELSE LET r == parseGitStatusLineMust(Head(lines)) IN
         IF r.fatal THEN [fatal |-> TRUE, res |-> <<>>]
         ELSE ParseLines(Tail(lines), inc,
                         IF KeepChange(inc, r.c) THEN Append(res, r.c) ELSE res)

parseGitStatusMust(out, inc) == ParseLines(toTrimmedLines(out), inc, <<>>)

-----------------------------------------------------------------------------
(* Clock, retention and directory naming *)

\* time.Hour*24, in clock ticks
Threshold == 24 * 3600 * TicksPerSecond

\* Mutant: a directory exactly one day old is deleted too.
OlderThanRetention_AtLeast(age) == age >= 24 * 3600 * TicksPerSecond

\* age > time.Hour*24
OlderThanRetention(age) == age > Threshold

\* Mutant: the name is cut to whole minutes.
FormatTime_Minutes(t) == t \div (60 * TicksPerSecond)

\* time.Now().Format("2006-01-02_15_04_05"): the clock cut to whole seconds
FormatTime(t) == t \div TicksPerSecond

StartTime == 2 * Threshold

ClockOffsets ==
    {j * Threshold + k : j \in 0..MaxJumps, k \in 0..MaxTicks}

-----------------------------------------------------------------------------
(* The scratch root and the snapshot directories in it *)

EmptySide == [exists |-> FALSE, files |-> <<>>]

\* A directory made by run r at time t (creator and ctime record who made it
\* and when; the program reads neither).
NewDir(r, t) ==
    [mtime |-> t, creator |-> r, ctime |-> t,
     before |-> EmptySide, after |-> EmptySide]

\* What a path resolves to when the directory is gone: nothing can be created.
GoneDir == NewDir(0, 0)

DirAt(dirs, name) == IF name \in DOMAIN dirs THEN dirs[name] ELSE GoneDir

getBeforeAfterDirs(dir) == <<<<dir, "before">>, <<dir, "after">>>>

\* os.MkdirAll(path of the run directory): creates it unless it is there.
MkdirAllRun(dirs, name, r, t) ==
    IF name \in DOMAIN dirs THEN dirs
    ELSE [n \in DOMAIN dirs \cup {name} |->
            IF n = name THEN NewDir(r, t) ELSE dirs[n]]

\* os.MkdirAll(dirBefore); os.MkdirAll(dirAfter): parents included; creating
\* an entry in the run directory sets that directory's modification time.
MkdirAllSides(dirs, name, r, t) ==
    LET ds == MkdirAllRun(dirs, name, r, t)
        d  == ds[name]
        made == ~d.before.exists \/ ~d.after.exists
    IN  [ds EXCEPT ![name] =
            [d EXCEPT !.mtime = IF made THEN t ELSE d.mtime,
                      !.before.exists = TRUE,
                      !.after.exists = TRUE]]

\* os.RemoveAll(path): whatever is at the path goes, a directory with all
\* that is in it or a file.
RemoveAll(dirs, name) == [n \in DOMAIN dirs \ {name} |-> dirs[n]]

RemoveFile(files, name) == {f \in files : f.name # name}

PutFile(files, name, data) ==
    [n \in DOMAIN files \cup {name} |-> IF n = name THEN data ELSE files[n]]

\* A step of the builder on one directory: the directory after it, whether a
\* fatal*() ended the run, and the working-tree paths it tried to open.
Ok(d, reads) == [fatal |-> FALSE, d |-> d, reads |-> reads]
Fatal(d, reads) == [fatal |-> TRUE, d |-> d, reads |-> reads]

createEmptyFileMust(st, side, name) ==
    IF st.fatal THEN st
    ELSE IF ~st.d[side].exists THEN Fatal(st.d, st.reads)
    ELSE Ok([st.d EXCEPT ![side].files = PutFile(@, name, <<>>)], st.reads)

copyFileMust(st, side, name, src) ==
    LET winSrc == ToWindowsPath(src) IN
    IF st.fatal THEN st
    ELSE IF ~st.d[side].exists THEN Fatal(st.d, st.reads)
    ELSE LET created == [st.d EXCEPT ![side].files = PutFile(@, name, <<>>)]
             reads == st.reads \cup {winSrc}
         IN  IF winSrc \notin DOMAIN wt THEN Fatal(created, reads)
             ELSE Ok([st.d EXCEPT ![side].files = PutFile(@, name, wt[winSrc])],
                     reads)

gitGetFileContentHeadMust(path) ==
    IF path \in DOMAIN head THEN [fatal |-> FALSE, out |-> head[path]]
    ELSE [fatal |-> TRUE, out |-> <<>>]

catGitHeadToFileMust(st, side, name, gitPath) ==
    LET d == gitGetFileContentHeadMust(gitPath) IN
    IF st.fatal THEN st
    ELSE IF d.fatal THEN Fatal(st.d, st.reads)
    ELSE IF ~st.d[side].exists THEN Fatal(st.d, st.reads)
    ELSE Ok([st.d EXCEPT ![side].files = PutFile(@, name, d.out)], st.reads)

\* Mutant: no placeholder is made in before.
copyFileAddedMust_NoPlaceholder(st, change) ==
    copyFileMust(st, "after", change.Name, change.Path)

copyFileAddedMust(st, change) ==
    copyFileMust(createEmptyFileMust(st, "before", change.Name),
                 "after", change.Name, change.Path)

copyFileDeletedMust(st, change) ==
    catGitHeadToFileMust(createEmptyFileMust(st, "after", change.Name),
                         "before", change.Name, change.Path)

\* Mutant: the two sides exchanged.
copyFileModifiedMust_Swapped(st, change) ==
    catGitHeadToFileMust(copyFileMust(st, "before", change.Name, change.Path),
                         "after", change.Name, change.Path)

copyFileModifiedMust(st, change) ==
    catGitHeadToFileMust(copyFileMust(st, "after", change.Name, change.Path),
                         "before", change.Name, change.Path)

copyFileChangeMust(st, change) ==
    CASE change.Type = Added -> copyFileAddedMust(st, change)
      [] change.Type = Modified -> copyFileModifiedMust(st, change)
      [] change.Type = Deleted -> copyFileModifiedMust(st, change)
      [] OTHER -> Fatal(st.d, st.reads)

\* The arguments runWinMerge hands to WinMergeU.
WinMergeArgs(dir) ==
    [flags |-> <<"/u", "/wl", "/wr">>, paths |-> getBeforeAfterDirs(dir)]

NoArgs == [flags |-> <<>>, paths |-> <<>>]

-----------------------------------------------------------------------------
(* The environment a run starts in *)

Alphabet == {"M", "?", " ", "/", "a", "\n"}

RECURSIVE Strings(_)
Strings(n) ==
    IF n = 0 THEN {<<>>}
    ELSE LET shorter == Strings(n - 1) IN
         shorter \cup {Append(s, c) : s \in {t \in shorter : Len(t) = n - 1},
                                      c \in Alphabet}

\* Lines as `git status --porcelain` prints them, and broken ones.
LineMa == <<"M", " ", "a", "/", "x">>
LineMb == <<" ", "M", " ", "b", "/", "y">>
LineAx == <<"A", " ", " ", "x">>
LineDz == <<"D", " ", "z">>
LineUj == <<"?", "?", " ", "j">>
LineBlank == <<" ">>
LineNoSpace == <<"M", "x">>
LineBadCode == <<"R", " ", "z">>
LineNoPath == <<"A", " ">>

SampleLines ==
    {LineMa, LineMb, LineAx, LineDz, LineUj, LineBlank, LineNoSpace,
     LineBadCode, LineNoPath}

RECURSIVE Texts(_)
Texts(n) ==
    IF n = 0 THEN {<<>>}
    ELSE LET shorter == Texts(n - 1) IN
         shorter \cup {t \o l \o <<"\n">> : t \in shorter, l \in SampleLines}

HeadFiles ==
    (<<"a", "/", "x">> :> <<1>>) @@ (<<"b", "/", "y">> :> <<2>>) @@
    (<<"z">> :> <<3>>)

WtFiles ==
    (<<"a", "\\", "x">> :> <<11>>) @@ (<<"b", "\\", "y">> :> <<12>>) @@
    (<<"x">> :> <<13>>) @@ (<<"z">> :> <<14>>) @@ (<<"j">> :> <<15>>)

\* Files that may be missing from the working tree.
MaybeAbsent == {<<"z">>, <<"x">>}

Restrict(f, S) == [x \in S |-> f[x]]

\* Directories earlier runs left in tempDir, named by their creation second.
OldTime == StartTime - Threshold - 1
EdgeTime == StartTime - Threshold
YoungTime == StartTime - 2 * TicksPerSecond

EarlierDirs ==
    [n \in {FormatTime(OldTime), FormatTime(EdgeTime), FormatTime(YoungTime)} |->
        LET t == CHOOSE t \in {OldTime, EdgeTime, YoungTime} : FormatTime(t) = n
        IN  [NewDir(0, t) EXCEPT !.before.exists = TRUE, !.after.exists = TRUE]]

\* A file in tempDir, under a name that is no timestamp.
StrayFile == [name |-> 0, mtime |-> OldTime]

InitRun(active, at) ==
    /\ pc = [r \in Runs |-> IF r \in active THEN at ELSE "off"]
    /\ listing = [r \in Runs |-> <<>>]
    /\ sweepAt = [r \in Runs |-> -1]
    /\ changes = [r \in Runs |-> <<>>]
    /\ idx = [r \in Runs |-> 0]
    /\ allocAt = [r \in Runs |-> -1]
    /\ subDir = [r \in Runs |-> -1]
    /\ wtReads = [r \in Runs |-> {}]
    /\ viewerArgs = [r \in Runs |-> NoArgs]

InitEnv ==
    /\ head = HeadFiles
    /\ \E gone \in SUBSET MaybeAbsent :
          wt = Restrict(WtFiles, DOMAIN WtFiles \ gone)
    /\ now = StartTime
    /\ sweptAt = -1
    /\ snapDirs = EarlierDirs
    /\ strayFiles = {StrayFile}

\* One invocation of main(): gitStatusMust passes includeNotCheckedIn = false.
Init ==
    /\ statusOut \in Texts(MaxLines)
    /\ includeNotCheckedIn = FALSE
    /\ InitEnv
    /\ InitRun({1}, "start")

-----------------------------------------------------------------------------
(* The steps of main() *)

RECURSIVE SortedNames(_)
SortedNames(S) ==
    IF S = {} THEN <<>>
    ELSE LET m == CHOOSE m \in S : \A n \in S : m <= n
         IN  <<m>> \o SortedNames(S \ {m})

\* ioutil.ReadDir(tempDir): the entries, sorted by name, with the FileInfo
\* read at that time.
ReadDirTemp ==
    LET names == SortedNames(DOMAIN snapDirs \cup {f.name : f \in strayFiles})
        Info(n) ==
            IF n \in DOMAIN snapDirs
            THEN [name |-> n, isDir |-> TRUE, mtime |-> snapDirs[n].mtime]
            ELSE [name |-> n, isDir |-> FALSE,
                  mtime |-> (CHOOSE f \in strayFiles : f.name = n).mtime]
    IN  [i \in 1..Len(names) |-> Info(names[i])]

\* detectExesMust, createTempDirMust, and the ReadDir of deleteOldDirs
StartSweep(r) ==
    /\ pc[r] = "start"
    /\ listing' = [listing EXCEPT ![r] = ReadDirTemp]
    /\ sweepAt' = [sweepAt EXCEPT ![r] = now]
    /\ pc' = [pc EXCEPT ![r] = "sweep"]
    /\ UNCHANGED <<statusOut, includeNotCheckedIn, head, wt, now, snapDirs,
                   strayFiles, changes, idx, allocAt, subDir, wtReads, sweptAt,
                   viewerArgs>>

\* One iteration of the loop of deleteOldDirs
SweepEntry(r) ==
    /\ pc[r] = "sweep"
    /\ listing[r] # <<>>
    /\ LET fi == Head(listing[r])
           remove == fi.isDir /\ OlderThanRetention(now - fi.mtime)
       IN
       /\ snapDirs' = IF remove THEN RemoveAll(snapDirs, fi.name) ELSE snapDirs
       /\ strayFiles' = IF remove THEN RemoveFile(strayFiles, fi.name)
                        ELSE strayFiles
    /\ listing' = [listing EXCEPT ![r] = Tail(@)]
    /\ UNCHANGED <<statusOut, includeNotCheckedIn, head, wt, now,
                   pc, sweepAt, changes, idx, allocAt, subDir, wtReads,
                   sweptAt, viewerArgs>>

\* deleteOldDirs returns; cdToGitRoot
SweepDone(r) ==
    /\ pc[r] = "sweep"
    /\ listing[r] = <<>>
    /\ pc' = [pc EXCEPT ![r] = "status"]
    /\ sweptAt' = IF sweepAt[r] = now THEN now ELSE sweptAt
    /\ UNCHANGED <<statusOut, includeNotCheckedIn, head, wt, now, snapDirs,
                   strayFiles, listing, sweepAt, changes, idx, allocAt, subDir,
                   wtReads, viewerArgs>>

\* gitStatusMust and the len(changes) == 0 test of main
GitStatus(r) ==
    /\ pc[r] = "status"
    /\ LET p == parseGitStatusMust(statusOut, includeNotCheckedIn) IN
       /\ changes' = [changes EXCEPT ![r] = p.res]
       /\ pc' = [pc EXCEPT ![r] = IF p.fatal THEN "exit1"
                                  ELSE IF Len(p.res) = 0 THEN "exit0"
                                  ELSE "alloc"]
    /\ UNCHANGED <<statusOut, includeNotCheckedIn, head, wt, now, snapDirs,
                   strayFiles, listing, sweepAt, idx, allocAt, subDir, wtReads,
                   sweptAt, viewerArgs>>

\* subDir := time.Now().Format(...); os.MkdirAll(dir)
AllocDir(r) ==
    /\ pc[r] = "alloc"
    /\ allocAt' = [allocAt EXCEPT ![r] = now]
    /\ subDir' = [subDir EXCEPT ![r] = FormatTime(now)]
    /\ snapDirs' = MkdirAllRun(snapDirs, FormatTime(now), r, now)
    /\ pc' = [pc EXCEPT ![r] = "mkdirs"]
    /\ UNCHANGED <<statusOut, includeNotCheckedIn, head, wt, now, strayFiles,
                   listing, sweepAt, changes, idx, wtReads, sweptAt, viewerArgs>>

\* copyFiles: the two MkdirAll calls
MakeSides(r) ==
    /\ pc[r] = "mkdirs"
    /\ snapDirs' = MkdirAllSides(snapDirs, subDir[r], r, now)
    /\ idx' = [idx EXCEPT ![r] = 1]
    /\ pc' = [pc EXCEPT ![r] = "copy"]
    /\ UNCHANGED <<statusOut, includeNotCheckedIn, head, wt, now, strayFiles,
                   listing, sweepAt, changes, allocAt, subDir, wtReads,
                   sweptAt, viewerArgs>>

\* copyFiles: one iteration of the loop over the changes
CopyChange(r) ==
    /\ pc[r] = "copy"
    /\ idx[r] <= Len(changes[r])
    /\ LET st == copyFileChangeMust(Ok(DirAt(snapDirs, subDir[r]), wtReads[r]),
                                    changes[r][idx[r]])
       IN
       /\ snapDirs' = IF subDir[r] \in DOMAIN snapDirs
                      THEN [snapDirs EXCEPT ![subDir[r]] = st.d]
                      ELSE snapDirs
       /\ wtReads' = [wtReads EXCEPT ![r] = st.reads]
       /\ idx' = [idx EXCEPT ![r] = IF st.fatal THEN @ ELSE @ + 1]
       /\ pc' = [pc EXCEPT ![r] = IF st.fatal THEN "exit1"
                                  ELSE IF idx[r] = Len(changes[r]) THEN "viewer"
                                  ELSE "copy"]
    /\ UNCHANGED <<statusOut, includeNotCheckedIn, head, wt, now, strayFiles,
                   listing, sweepAt, changes, allocAt, subDir, sweptAt,
                   viewerArgs>>

\* runWinMerge: WinMergeU is started and the run waits for it
RunWinMerge(r) ==
    /\ pc[r] = "viewer"
    /\ viewerArgs' = [viewerArgs EXCEPT ![r] = WinMergeArgs(subDir[r])]
    /\ pc' = [pc EXCEPT ![r] = "viewing"]
    /\ UNCHANGED <<statusOut, includeNotCheckedIn, head, wt, now, snapDirs,
                   strayFiles, listing, sweepAt, changes, idx, allocAt, subDir,
                   wtReads, sweptAt>>

\* The user closes WinMerge: runWinMerge and main return
ViewerExit(r) ==
    /\ pc[r] = "viewing"
    /\ pc' = [pc EXCEPT ![r] = "done"]
    /\ UNCHANGED <<statusOut, includeNotCheckedIn, head, wt, now, snapDirs,
                   strayFiles, listing, sweepAt, changes, idx, allocAt, subDir,
                   wtReads, sweptAt, viewerArgs>>

\* The non-interactive part of main() is running: between the listing of
\* tempDir and the start of WinMerge.
InBatch(r) == pc[r] \in {"sweep", "status", "alloc", "mkdirs", "copy", "viewer"}

\* Time passes: a tick at any moment; a whole retention period only while
\* every run is waiting (not started, waiting for WinMerge, or ended), since
\* the non-interactive part of a run takes a fraction of a second.
Tick ==
    /\ \E d \in {1, Threshold} :
          /\ (now + d) - StartTime \in ClockOffsets
          /\ d = Threshold => \A r \in Runs : ~InBatch(r)
          /\ now' = now + d
    /\ UNCHANGED <<statusOut, includeNotCheckedIn, head, wt, snapDirs,
                   strayFiles, pc, listing, sweepAt, changes, idx, allocAt,
                   subDir, wtReads, sweptAt, viewerArgs>>

Step(r) ==
    \/ StartSweep(r)
    \/ SweepEntry(r)
    \/ SweepDone(r)
    \/ GitStatus(r)
    \/ AllocDir(r)
    \/ MakeSides(r)
    \/ CopyChange(r)
    \/ RunWinMerge(r)
    \/ ViewerExit(r)

Next == \E r \in Runs : Step(r)

Spec == Init /\ [][Next]_vars


\* The parser and the builder alone, with the caller's flag free.
InitBuilder ==
    /\ statusOut \in Texts(MaxLines)
    /\ includeNotCheckedIn \in BOOLEAN
    /\ InitEnv
    /\ InitRun({1}, "status")

NextBuilder ==
    \E r \in Runs : GitStatus(r) \/ AllocDir(r) \/ MakeSides(r) \/ CopyChange(r)

SpecBuilder == InitBuilder /\ [][NextBuilder]_vars

\* "M src/a.go\nA src/b.go\nD src/c.go\n??  src/junk.go\n"
ScenarioText ==
    <<"M", " ", "s", "r", "c", "/", "a", ".", "g", "o", "\n", "A", " ",
      "s", "r", "c", "/", "b", ".", "g", "o", "\n", "D", " ", "s", "r",
      "c", "/", "c", ".", "g", "o", "\n", "?", "?", " ", " ", "s", "r",
      "c", "/", "j", "u", "n", "k", ".", "g", "o", "\n">>

\* The parser alone, on every short text, on the sample texts and on the
\* scenario text.
InitParse ==
    /\ statusOut \in Strings(MaxLen) \cup Texts(MaxLines + 1) \cup {ScenarioText}
    /\ includeNotCheckedIn \in BOOLEAN
    /\ InitEnv
    /\ InitRun({1}, "status")

NextParse == \E r \in Runs : GitStatus(r)

SpecParse == InitParse /\ [][NextParse]_vars

\* Two invocations, not coordinated, while time passes.
InitMulti ==
    /\ statusOut = LineMa \o <<"\n">>
    /\ includeNotCheckedIn = FALSE
    /\ head = HeadFiles
    /\ wt = WtFiles
    /\ now = StartTime
    /\ sweptAt = -1
    /\ snapDirs = EarlierDirs
    /\ strayFiles = {StrayFile}
    /\ InitRun(Runs, "start")

\* The tool is invoked again once an invocation has ended.  The ended
\* invocation's directories become those of an earlier run.
InvokeAgain(r) ==
    /\ pc[r] \in {"done", "exit0", "exit1"}
    /\ pc' = [pc EXCEPT ![r] = "start"]
    /\ listing' = [listing EXCEPT ![r] = <<>>]
    /\ sweepAt' = [sweepAt EXCEPT ![r] = -1]
    /\ changes' = [changes EXCEPT ![r] = <<>>]
    /\ idx' = [idx EXCEPT ![r] = 0]
    /\ allocAt' = [allocAt EXCEPT ![r] = -1]
    /\ subDir' = [subDir EXCEPT ![r] = -1]
    /\ wtReads' = [wtReads EXCEPT ![r] = {}]
    /\ viewerArgs' = [viewerArgs EXCEPT ![r] = NoArgs]
    /\ snapDirs' = [n \in DOMAIN snapDirs |->
                      IF snapDirs[n].creator = r
                      THEN [snapDirs[n] EXCEPT !.creator = 0]
                      ELSE snapDirs[n]]
    /\ UNCHANGED <<statusOut, includeNotCheckedIn, head, wt, now, strayFiles,
                   sweptAt>>

NextMulti == (\E r \in Runs : Step(r) \/ InvokeAgain(r)) \/ Tick

SpecMulti == InitMulti /\ [][NextMulti]_vars

-----------------------------------------------------------------------------
(* Vocabulary of the properties *)

StatusCodes == {<<"M">>, <<"A">>, <<"D">>, <<"?", "?">>}

KindOfCode ==
    (<<"M">> :> Modified) @@ (<<"A">> :> Added) @@ (<<"D">> :> Deleted) @@
    (<<"?", "?">> :> NotCheckedIn)

\* The lines of a text: what each newline ends, and an unended rest.
TextLines(out) ==
    LET segs == Split(out, "\n") IN
    IF segs[Len(segs)] = <<>> THEN SubSeq(segs, 1, Len(segs) - 1) ELSE segs

IsBlank(l) == \A i \in 1..Len(l) : IsSpace(l[i])

\* The code of a trimmed line: what stands before its first space.
CodeOf(t) == SubSeq(t, 1, IndexOf(t, " ") - 1)

\* The path of a trimmed line: what follows the first space, trimmed.
PathOf(t) == TrimSpace(SubSeq(t, IndexOf(t, " ") + 1, Len(t)))

\* n is the last element of path p: it holds no separator, only separators
\* follow it, and it starts p or follows a separator.
IsFinalComponent(n, p) ==
    \E i \in 1..Len(p) : \E j \in i..Len(p) :
        /\ n = SubSeq(p, i, j)
        /\ \A k \in i..j : ~IsPathSeparator(p[k])
        /\ \A k \in (j+1)..Len(p) : IsPathSeparator(p[k])
        /\ i = 1 \/ IsPathSeparator(p[i-1])

\* "<code> <path>": a known code, a space, a path that names something.
WellFormedLine(l) ==
    LET t == TrimSpace(l) IN
    /\ IndexOf(t, " ") > 0
    /\ CodeOf(t) \in StatusCodes
    /\ \E i \in 1..Len(PathOf(t)) : ~IsPathSeparator(PathOf(t)[i])

\* A line that is not blank and lacks the space or has an unknown code.
BrokenLine(l) ==
    LET t == TrimSpace(l) IN
    /\ t # <<>>
    /\ IndexOf(t, " ") = 0 \/ CodeOf(t) \notin StatusCodes

HasBrokenLine(out) ==
    \E i \in 1..Len(TextLines(out)) : BrokenLine(TextLines(out)[i])

\* gitStatusMust has returned or ended the run.
Parsed(r) == pc[r] \notin {"off", "start", "sweep", "status"}

\* copyFiles has returned.
BuildDone(r) == pc[r] = "viewer" \/ viewerArgs[r] # NoArgs

Snapshot(r) == DirAt(snapDirs, subDir[r])

FileIs(side, name, data) ==
    name \in DOMAIN side.files /\ side.files[name] = data

UniqueName(r, i) ==
    \A j \in 1..Len(changes[r]) : j # i => changes[r][j].Name # changes[r][i].Name

CreatedNothing(r) ==
    /\ subDir[r] = -1
    /\ \A n \in DOMAIN snapDirs : snapDirs[n].creator # r
    /\ viewerArgs[r] = NoArgs

-----------------------------------------------------------------------------
(* C1: for every Deleted record, once copyFiles has returned, after/<name>  *)
(* is an empty file, before/<name> holds the HEAD content of the path, and  *)
(* the working-tree file was not read.  The code handles a Deleted record   *)
(* with copyFileModifiedMust, which opens the working-tree file.            *)
C1_DeletedSnapshot ==
    \A r \in Runs : BuildDone(r) =>
        \A i \in 1..Len(changes[r]) :
            LET c == changes[r][i] IN
            c.Type = Deleted =>
                /\ FileIs(Snapshot(r).after, c.Name, <<>>)
                /\ c.Path \in DOMAIN head
                /\ FileIs(Snapshot(r).before, c.Name, head[c.Path])
                /\ ToWindowsPath(c.Path) \notin wtReads[r]

(* C2 as claimed: for every Modified record, whatever the paths of the     *)
(* run's records, once copyFiles has returned before/<name> holds the HEAD *)
(* content of the path and after/<name> the working-tree content.          *)
C2_ModifiedAnyPaths ==
    \A r \in Runs : BuildDone(r) =>
        \A i \in 1..Len(changes[r]) :
            LET c == changes[r][i] IN
            c.Type = Modified =>
                /\ c.Path \in DOMAIN head
                /\ FileIs(Snapshot(r).before, c.Name, head[c.Path])
                /\ ToWindowsPath(c.Path) \in DOMAIN wt
                /\ FileIs(Snapshot(r).after, c.Name, wt[ToWindowsPath(c.Path)])

(* C2 as amended: for every Modified record whose displayName no other     *)
(* record of the run has, once copyFiles has returned before/<name> holds  *)
(* the HEAD content of the path and after/<name> the working-tree content. *)
C2_ModifiedUniqueName ==
    \A r \in Runs : BuildDone(r) =>
        \A i \in 1..Len(changes[r]) :
            LET c == changes[r][i] IN
            (c.Type = Modified /\ UniqueName(r, i)) =>
                /\ c.Path \in DOMAIN head
                /\ FileIs(Snapshot(r).before, c.Name, head[c.Path])
                /\ ToWindowsPath(c.Path) \in DOMAIN wt
                /\ FileIs(Snapshot(r).after, c.Name, wt[ToWindowsPath(c.Path)])

C2_Witness ==
    \E r \in Runs :
        /\ BuildDone(r)
        /\ Len(changes[r]) = 2
        /\ changes[r][1].Type = Modified
        /\ changes[r][2].Type = Modified
        /\ UniqueName(r, 1)

(* C3 as claimed: for every Added record, whatever the paths of the run's  *)
(* records, once copyFiles has returned before/<name> is an empty file and *)
(* after/<name> holds the working-tree content of the path.                *)
C3_AddedAnyPaths ==
    \A r \in Runs : BuildDone(r) =>
        \A i \in 1..Len(changes[r]) :
            LET c == changes[r][i] IN
            c.Type = Added =>
                /\ FileIs(Snapshot(r).before, c.Name, <<>>)
                /\ ToWindowsPath(c.Path) \in DOMAIN wt
                /\ FileIs(Snapshot(r).after, c.Name, wt[ToWindowsPath(c.Path)])

(* C3 as amended: for every Added record whose displayName no other record *)
(* of the run has, once copyFiles has returned before/<name> is an empty   *)
(* file and after/<name> holds the working-tree content of the path.       *)
C3_AddedUniqueName ==
    \A r \in Runs : BuildDone(r) =>
        \A i \in 1..Len(changes[r]) :
            LET c == changes[r][i] IN
            (c.Type = Added /\ UniqueName(r, i)) =>
                /\ FileIs(Snapshot(r).before, c.Name, <<>>)
                /\ ToWindowsPath(c.Path) \in DOMAIN wt
                /\ FileIs(Snapshot(r).after, c.Name, wt[ToWindowsPath(c.Path)])

C3_Witness ==
    \E r \in Runs :
        /\ BuildDone(r)
        /\ Len(changes[r]) = 2
        /\ changes[r][1].Type = Added
        /\ changes[r][2].Type = Modified
        /\ UniqueName(r, 1)

(* C5 as claimed: a line with no space, with an unknown code, or empty     *)
(* after trimming aborts the run before anything is built.                 *)
C5_AnyMalformedAborts ==
    \A r \in Runs :
        (/\ Parsed(r)
         /\ \E i \in 1..Len(TextLines(statusOut)) :
               \/ IsBlank(TextLines(statusOut)[i])
               \/ BrokenLine(TextLines(statusOut)[i]))
        => (pc[r] = "exit1" /\ changes[r] = <<>> /\ CreatedNothing(r))

(* C5 as amended: a non-blank line with no space after trimming (a code    *)
(* with no path is one) or with a code outside {M, A, D, ??} aborts the    *)
(* run: no record reaches the builder, no sub-directory is made and the    *)
(* viewer is not started, wherever the line stands.  A line that is empty  *)
(* after trimming is dropped and does not abort parsing.                   *)
C5_BrokenLineAborts ==
    \A r \in Runs : Parsed(r) =>
        IF HasBrokenLine(statusOut)
        THEN pc[r] = "exit1" /\ changes[r] = <<>> /\ CreatedNothing(r)
        ELSE ~(pc[r] = "exit1" /\ subDir[r] = -1)

C5_Witness ==
    \E r \in Runs :
        /\ pc[r] = "exit1"
        /\ TextLines(statusOut) = <<LineMa, LineBadCode>>

(* C7: when every line of the status output is blank or an untracked       *)
(* entry, the run ends with exit status 0 and has made no sub-directory    *)
(* and not started the viewer.                                             *)
C7_NothingToPreview ==
    \A r \in Runs :
        (/\ Parsed(r)
         /\ \A i \in 1..Len(TextLines(statusOut)) :
               LET l == TextLines(statusOut)[i] IN
               IsBlank(l) \/ (WellFormedLine(l) /\ CodeOf(TrimSpace(l)) = <<"?", "?">>))
        => (pc[r] = "exit0" /\ CreatedNothing(r))

C7_Witness ==
    \E r \in Runs :
        /\ pc[r] = "exit0"
        /\ TextLines(statusOut) = <<LineUj, LineBlank>>

(* C8: whenever the viewer is started, its two paths are the run's before  *)
(* and after directories, in that order, and its flags ask for no MRU      *)
(* entry (/u), both sides read-only (/wl, /wr) and a recursive compare     *)
(* (/r).  The code passes /u, /wl and /wr only.                            *)
C8_ViewerArguments ==
    \A r \in Runs : viewerArgs[r] # NoArgs =>
        /\ viewerArgs[r].paths = <<<<subDir[r], "before">>, <<subDir[r], "after">>>>
        /\ \A f \in {"/u", "/wl", "/wr", "/r"} :
              \E i \in 1..Len(viewerArgs[r].flags) : viewerArgs[r].flags[i] = f

(* C9: an Untracked record is left out unless the flag asks for it; with   *)
(* the flag set, the builder handles it as an Added record: the run is not *)
(* aborted for the record's kind, before/<name> is an empty file and       *)
(* after/<name> holds the working-tree content.  The code ends the run     *)
(* with "unknown change" on it.                                            *)
C9_UntrackedAsAdded ==
    \A r \in Runs :
        /\ (Parsed(r) /\ ~includeNotCheckedIn) =>
              \A i \in 1..Len(changes[r]) : changes[r][i].Type # NotCheckedIn
        /\ (/\ includeNotCheckedIn
            /\ pc[r] = "exit1"
            /\ idx[r] \in 1..Len(changes[r])
            /\ changes[r][idx[r]].Type = NotCheckedIn)
           => ToWindowsPath(changes[r][idx[r]].Path) \notin DOMAIN wt
        /\ (includeNotCheckedIn /\ BuildDone(r)) =>
              \A i \in 1..Len(changes[r]) :
                  LET c == changes[r][i] IN
                  (c.Type = NotCheckedIn /\ UniqueName(r, i)) =>
                      /\ FileIs(Snapshot(r).before, c.Name, <<>>)
                      /\ ToWindowsPath(c.Path) \in DOMAIN wt
                      /\ FileIs(Snapshot(r).after, c.Name,
                                wt[ToWindowsPath(c.Path)])

\* The trimmed non-blank lines of a text, in order.
NonBlankLines(out) ==
    LET NotBlank(l) == ~IsBlank(l)
        ls == SelectSeq(TextLines(out), NotBlank)
    IN  [i \in 1..Len(ls) |-> TrimSpace(ls[i])]

\* The lines whose record the parser hands on.
KeptLines(out, inc) ==
    LET Kept(t) == inc \/ CodeOf(t) # <<"?", "?">>
    IN  SelectSeq(NonBlankLines(out), Kept)

(* C4: when every non-blank line is well-formed, parsing does not abort    *)
(* and yields, in input order, one record per line, less the Untracked     *)
(* ones when includeNotCheckedIn is false and no others; each record's     *)
(* kind is that of the line's code, its path the trimmed path and its      *)
(* displayName the final component of that path.                           *)
C4_WellFormedParse ==
    \A r \in Runs :
        (/\ Parsed(r)
         /\ \A i \in 1..Len(TextLines(statusOut)) :
               LET l == TextLines(statusOut)[i] IN IsBlank(l) \/ WellFormedLine(l))
        => LET kept == KeptLines(statusOut, includeNotCheckedIn) IN
           /\ pc[r] # "exit1"
           /\ Len(changes[r]) = Len(kept)
           /\ \A i \in 1..Len(kept) :
                 /\ changes[r][i].Type = KindOfCode[CodeOf(kept[i])]
                 /\ changes[r][i].Path = PathOf(kept[i])
                 /\ IsFinalComponent(changes[r][i].Name, PathOf(kept[i]))

C4_Witness ==
    \E r \in Runs :
        /\ Parsed(r)
        /\ statusOut = ScenarioText
        /\ ~includeNotCheckedIn
        /\ Len(changes[r]) = 3
        /\ changes[r][1] = [Type |-> Modified,
                            Path |-> <<"s", "r", "c", "/", "a", ".", "g", "o">>,
                            Name |-> <<"a", ".", "g", "o">>]
        /\ changes[r][3].Type = Deleted

\* Directories the step removes from tempDir.
Removed == DOMAIN snapDirs \ DOMAIN snapDirs'

C10_NeverShared ==
    \A r \in Runs : subDir[r] # -1 =>
        /\ \A s \in Runs \ {r} : subDir[s] # subDir[r]
        /\ subDir[r] \in DOMAIN snapDirs => snapDirs[subDir[r]].creator = r

(* C10 as amended: two invocations that read the clock in different        *)
(* seconds allocate different sub-directories; a run writes only into a    *)
(* sub-directory it created or one created within the second in which it   *)
(* read the clock; and a run never deletes the sub-directory it created.   *)
C10_OwnPerSecond ==
    /\ [](\A r \in Runs : subDir[r] # -1 =>
            /\ \A s \in Runs \ {r} :
                  (/\ subDir[s] # -1
                   /\ allocAt[r] \div TicksPerSecond # allocAt[s] \div TicksPerSecond)
                  => subDir[s] # subDir[r]
            /\ subDir[r] \in DOMAIN snapDirs =>
                  \/ snapDirs[subDir[r]].creator = r
                  \/ snapDirs[subDir[r]].ctime \div TicksPerSecond
                        = allocAt[r] \div TicksPerSecond)
    /\ [][\A n \in Removed : \A r \in Runs :
            (pc[r] = "sweep" /\ listing'[r] # listing[r])
            => snapDirs[n].creator # r]_vars

C10_Witness ==
    \E r \in Runs : \E s \in Runs \ {r} :
        /\ subDir[r] # -1
        /\ subDir[r] \notin DOMAIN snapDirs
        /\ pc[r] = "viewing"
        /\ subDir[s] # -1
        /\ subDir[s] \in DOMAIN snapDirs
        /\ snapDirs[subDir[s]].creator = s

=============================================================================
